---- MODULE Spec2Model ----
(***************************************************************************)
(* A model of the metaheuristic framework: Individual.py (Indiv),          *)
(* Algorithms/ES.py (ES), Operators/OperatorSplit.py (OperatorSplit),      *)
(* ObjectiveFunc.py (ObjectiveFunc) and the run loop of                    *)
(* examples/image_evolution.py.                                            *)
(*                                                                         *)
(* Python objects are modelled with their identity: numpy arrays live in   *)
(* `heap` (address -> array) and Indiv objects in `objs` (id -> fields);   *)
(* an attribute that holds an array holds its address, so two attributes   *)
(* bound to one array (self._genotype and self.best after __init__) alias. *)
(* Each component has its own specification over the shared variables.     *)
(***************************************************************************)
EXTENDS Integers, Sequences, FiniteSets, TLC

VARIABLES
    heap,        \* address -> numpy array (a tuple of Dim numbers)
    objs,        \* id -> the fields of an Indiv object
    population,  \* a Python list of Indiv objects: a sequence of ids
    objfunc,     \* the ObjectiveFunc object: mode, factor, flags, counter
    es,          \* the ES object: params, size, n_offspring, and perturb's locals
    split,       \* the OperatorSplit object: op_list, mask
    fitpop,      \* the Population object handed to ObjectiveFunc.fitness
    drv,         \* the run driver `alg` and the position of run_algorithm's loop
    sel,         \* the AlgorithmSelection object and the position of its loops
    track,       \* history: per Indiv, the fitness reads since its genotype was bound
    last         \* history: the last operation, its arguments and what it returned

vars == <<heap, objs, population, objfunc, es, split, fitpop, drv, sel, track, last>>

\* A component that a specification does not run.
Unused == [pc |-> "unused"]

\* What the operations of Individual.py and of ES.py leave alone.
IndivFrame == <<es, split, fitpop, drv, sel, last>>

ESFrame == <<split, fitpop, drv, sel, track>>

----------------------------------------------------------------------------
(* Bounds of the model and the parameters of the objective function.       *)

\* Most Indiv objects alive at once in the specification of Individual.py.
MaxIndivs == 2

\* Largest popSize and offspringSize given to ES.
MaxPop == 2

MaxOff == 3

\* vecsize of the ObjectiveVectorFunc instance.
vecsize == 2

\* low_lim and up_lim of the ObjectiveVectorFunc instance.
low_lim == 0

up_lim == 1

\* The vectors inside the limits.
Vectors == [1..vecsize -> low_lim..up_lim]

Min(S) == CHOOSE x \in S : \A y \in S : x <= y

RECURSIVE SumTo(_, _)
SumTo(s, n) == IF n = 0 THEN 0 ELSE s[n] + SumTo(s, n - 1)

----------------------------------------------------------------------------
(* The heap of arrays and the store of Indiv objects.                      *)

\* A fresh address: object creation never returns a live object.
NewAddr(h) == Min((1..(Cardinality(DOMAIN h) + 1)) \ DOMAIN h)

NewId(o) == Min((1..(Cardinality(DOMAIN o) + 1)) \ DOMAIN o)

\* The references to arrays, in a fixed order: object by object (ids are
\* 1..n), then the references `extra` held outside the objects.
RECURSIVE RefsFrom(_, _, _)
RefsFrom(o, i, extra) ==
    IF i > Cardinality(DOMAIN o) THEN extra
    ELSE <<o[i]._genotype, o[i].speed, o[i].best>> \o RefsFrom(o, i + 1, extra)

\* Reference counting frees what nothing refers to any more, and an address
\* carries no meaning beyond identity: the heap is kept with its live arrays
\* numbered in the order of RefsFrom. ren: old address -> new address.
Renaming(o, extra) ==
    LET refs   == RefsFrom(o, 1, extra)
        first(a) == Min({k \in DOMAIN refs : refs[k] = a})
    IN  [a \in {refs[k] : k \in DOMAIN refs} |->
            Cardinality({refs[k] : k \in 1..first(a)})]

Normal(h, o, extra) ==
    LET ren == Renaming(o, extra)
        inv(r) == CHOOSE a \in DOMAIN ren : ren[a] = r
    IN  [heap |-> [r \in 1..Cardinality(DOMAIN ren) |-> h[inv(r)]],
         objs |-> [i \in DOMAIN o |->
                     [o[i] EXCEPT !._genotype = ren[@], !.speed = ren[@],
                                  !.best = ren[@]]],
         extra |-> [k \in DOMAIN extra |-> ren[extra[k]]]]

\* np.zeros_like(vector)
zeros_like(v) == [p \in DOMAIN v |-> 0]

----------------------------------------------------------------------------
(* ObjectiveFunc: the value of one solution.                               *)

\* The objective of the instance: the components weighted by position.
objective(solution) == SumTo([p \in DOMAIN solution |-> p * solution[p]], vecsize)

\* The penalty hook: 0 unless the instance overrides it; the overriding
\* instance charges objfunc.pen for every component at or above up_lim.
penalize(solution) ==
    objfunc.pen * Cardinality({p \in DOMAIN solution : solution[p] >= up_lim})

\* factor is 1, and -1 for mode "min".
FactorOf(m) == IF m = "min" THEN -1 ELSE 1

\* ObjectiveFunc.__init__; pen is the charge of the instance's penalize hook.
ObjectiveFunc_init(mode, vectorized, recalculate, pen) ==
    [counter |-> 0, factor |-> FactorOf(mode), vectorized |-> vectorized,
     recalculate |-> recalculate, mode |-> mode, pen |-> pen]

\* The value fitness() computes for one solution.
FitnessValue(solution, adjusted) ==
    IF adjusted
    THEN objfunc.factor * (objective(solution) - penalize(solution))
    ELSE objective(solution)

\* objfunc(indiv): __call__ with adjusted = True, on one individual.
objfunc_call(h, ind) == FitnessValue(h[ind._genotype], TRUE)

\* The objective functions of the model: both modes, with the default
\* penalty hook (pen = 0) and with the overriding one (pen = 1).
ObjFuncs == {ObjectiveFunc_init(m, FALSE, FALSE, p) : m \in {"max", "min"}, p \in {0, 1}}

\* repair_solution (check_bounds in ES.py): np.clip(vector, low_lim, up_lim)
clip(vector) ==
    [p \in DOMAIN vector |->
        IF vector[p] < low_lim THEN low_lim
        ELSE IF vector[p] > up_lim THEN up_lim ELSE vector[p]]

\* What an operator can return: components up to one outside the limits.
OpVectors == [1..vecsize -> (low_lim - 1)..(up_lim + 1)]

----------------------------------------------------------------------------
(* Individual.py                                                           *)

\* Indiv.__init__ with speed already resolved (zeros_like when None).
Indiv_init(vector, speed) ==
    [_genotype |-> vector, speed |-> speed, _fitness |-> 0,
     fitness_calculated |-> FALSE, best |-> vector, is_dead |-> FALSE]

\* Indiv(objfunc, vector): the vector object at address `vector` is kept by
\* reference; speed is a new array of zeros.
Construct(h, o, vector) ==
    LET sp == NewAddr(h)
        h1 == h @@ (sp :> zeros_like(h[vector]))
        id == NewId(o)
    IN  [heap |-> h1, objs |-> o @@ (id :> Indiv_init(vector, sp)), id |-> id]

\* Indiv(objfunc, array): the same, for an array that is not on the heap yet.
ConstructNew(h, o, array) ==
    LET a == NewAddr(h) IN Construct(h @@ (a :> array), o, a)

\* fitness.setter
fitness_set(ind, fit) ==
    [ind EXCEPT !._fitness = fit, !.fitness_calculated = TRUE]

\* The fitness property: [ind: the object after the read, ret: the value
\* returned, called: how many times the objective function was invoked].
fitness_get_nocache(h, ind) ==
    LET new == fitness_set(ind, objfunc_call(h, ind))
    IN  [ind |-> new, ret |-> new._fitness, called |-> 1]

fitness_get(h, ind) ==
    IF ~ind.fitness_calculated
    THEN LET new == fitness_set(ind, objfunc_call(h, ind))
         IN  [ind |-> new, ret |-> new._fitness, called |-> 1]
    ELSE [ind |-> ind, ret |-> ind._fitness, called |-> 0]

\* genotype.setter
genotype_set_keepflag(ind, vector) == [ind EXCEPT !._genotype = vector]

genotype_set(ind, vector) ==
    [ind EXCEPT !.fitness_calculated = FALSE, !._genotype = vector]

\* store_best: both fitness properties are read, self's first.
store_best(h, self, past_indiv) ==
    LET r1 == fitness_get(h, self)
        r2 == fitness_get(h, past_indiv)
    IN  [self |-> IF r1.ret < r2.ret
                  THEN [r1.ind EXCEPT !.best = r2.ind._genotype]
                  ELSE r1.ind,
         past_indiv |-> r2.ind, r1 |-> r1, r2 |-> r2]

\* __copy__: copy() of the three arrays, the fitness and its flag.
copy_indiv(h, o, ind) ==
    LET g  == NewAddr(h)
        h1 == h @@ (g :> h[ind._genotype])
        s  == NewAddr(h1)
        h2 == h1 @@ (s :> h[ind.speed])
        b  == NewAddr(h2)
        h3 == h2 @@ (b :> h[ind.best])
        id == NewId(o)
        \* Indiv(...) with a speed given builds no zeros; best is the genotype copy
        c0 == Indiv_init(g, s)
        c1 == [c0 EXCEPT !._fitness = ind._fitness,
                         !.fitness_calculated = ind.fitness_calculated,
                         !.best = b]
    IN  [heap |-> h3, objs |-> o @@ (id :> c1), id |-> id]

----------------------------------------------------------------------------
(* History of the fitness reads of one Indiv.                              *)

\* nreads, ncalls: fitness reads and objective invocations (counted to 2)
\* since the genotype was bound; rets: the values those reads returned;
\* rebound: "no" (bound by the constructor), "fresh" (rebound by the setter
\* before any fitness was calculated), "cached" (rebound after one was).
NoReads(rebound) == [nreads |-> 0, ncalls |-> 0, rets |-> {}, rebound |-> rebound]

Count(n) == IF n < 2 THEN n + 1 ELSE 2

Read(t, r) ==
    [t EXCEPT !.nreads = Count(@),
              !.ncalls = IF r.called = 1 THEN Count(@) ELSE @,
              !.rets = @ \cup {r.ret}]

----------------------------------------------------------------------------
(* Specification of Individual.py: any interleaving of its operations.     *)

IndivInit ==
    /\ heap = <<>>
    /\ objs = <<>>
    /\ population = <<>>
    \* penalize is the default hook, which returns 0
    /\ objfunc \in {ObjectiveFunc_init(m, FALSE, FALSE, 0) : m \in {"max", "min"}}
    /\ track = <<>>
    /\ es = Unused /\ split = Unused /\ fitpop = Unused /\ drv = Unused
    /\ sel = Unused
    /\ last = [op |-> "none"]

\* Indiv(objfunc, vector)
New(vector) ==
    /\ Cardinality(DOMAIN objs) < MaxIndivs
    /\ LET c == ConstructNew(heap, objs, vector)
           n == Normal(c.heap, c.objs, <<>>)
       IN  /\ heap' = n.heap
           /\ objs' = n.objs
           /\ population' = Append(population, c.id)
           /\ track' = track @@ (c.id :> NoReads("no"))
    /\ UNCHANGED <<objfunc, IndivFrame>>

\* indiv.fitness
Fitness(i) ==
    /\ i \in DOMAIN objs
    /\ LET r == fitness_get(heap, objs[i])
       IN  /\ objs' = [objs EXCEPT ![i] = r.ind]
           /\ track' = [track EXCEPT ![i] = Read(@, r)]
    /\ UNCHANGED <<heap, population, objfunc, IndivFrame>>

\* indiv.genotype = vector
SetGenotype(i, vector) ==
    /\ i \in DOMAIN objs
    /\ LET a  == NewAddr(heap)
           h1 == heap @@ (a :> vector)
           n  == Normal(h1, [objs EXCEPT ![i] = genotype_set(@, a)], <<>>)
       IN  /\ heap' = n.heap
           /\ objs' = n.objs
           /\ track' = [track EXCEPT ![i] =
                  NoReads(IF objs[i].fitness_calculated THEN "cached" ELSE "fresh")]
    /\ UNCHANGED <<population, objfunc, IndivFrame>>

\* indiv.store_best(past_indiv)
StoreBest(i, j) ==
    /\ i \in DOMAIN objs /\ j \in DOMAIN objs /\ i # j
    /\ LET r  == store_best(heap, objs[i], objs[j])
           n  == Normal(heap, [objs EXCEPT ![i] = r.self, ![j] = r.past_indiv], <<>>)
       IN  /\ heap' = n.heap
           /\ objs' = n.objs
           /\ track' = [track EXCEPT ![i] = Read(@, r.r1), ![j] = Read(@, r.r2)]
    /\ UNCHANGED <<population, objfunc, IndivFrame>>

\* copy(indiv)
Copy(i) ==
    /\ i \in DOMAIN objs
    /\ Cardinality(DOMAIN objs) < MaxIndivs
    /\ LET c == copy_indiv(heap, objs, objs[i])
           n == Normal(c.heap, c.objs, <<>>)
       IN  /\ heap' = n.heap
           /\ objs' = n.objs
           /\ population' = Append(population, c.id)
           \* the copy carries the cached fitness, and with it the reads so far
           /\ track' = track @@ (c.id :> track[i])
    /\ UNCHANGED <<objfunc, IndivFrame>>

IndivNext ==
    \/ \E v \in Vectors : New(v)
    \/ \E i \in DOMAIN objs : Fitness(i)
    \/ \E i \in DOMAIN objs, v \in Vectors : SetGenotype(i, v)
    \/ \E i, j \in DOMAIN objs : StoreBest(i, j)
    \/ \E i \in DOMAIN objs : Copy(i)

SpecIndiv == IndivInit /\ [][IndivNext]_vars

\* C1: while the genotype of an Indiv is not rebound, every read of its
\* fitness returns one and the same value, the cached one, and the objective
\* function has been invoked for it exactly once, however many reads there
\* were (a copy carries the cached fitness of its original, and with it the
\* one invocation that produced it).
C1_FitnessComputedOnce ==
    \A i \in DOMAIN objs :
        track[i].nreads >= 1 =>
            /\ track[i].ncalls = 1
            /\ objs[i].fitness_calculated
            /\ track[i].rets = {objs[i]._fitness}

\* Some Indiv has had its fitness read twice since its genotype was bound.
C1_Witness == \E i \in DOMAIN objs : track[i].nreads = 2

\* C2: after the genotype setter, fitness_calculated is false, whether or not
\* a fitness had been calculated before; the first read after it invokes the
\* objective function on the new genotype and caches that value.
C2_SetterResetsCache ==
    \A i \in DOMAIN objs :
        track[i].rebound # "no" =>
            /\ track[i].nreads = 0 => ~objs[i].fitness_calculated
            /\ track[i].nreads >= 1 =>
                  /\ objs[i].fitness_calculated
                  /\ track[i].ncalls = 1
                  /\ objs[i]._fitness = objfunc_call(heap, objs[i])

\* An Indiv whose fitness was cached had its genotype rebound and its fitness
\* read again, and the new value differs from the one its original binding had.
C2_Witness ==
    \E i \in DOMAIN objs :
        /\ track[i].rebound = "cached"
        /\ track[i].nreads >= 1
        /\ objs[i]._fitness # FitnessValue(heap[objs[i].best], TRUE)

\* C11: after store_best(candidate) the best genotype of the individual is
\* the genotype of whichever of the two has the higher adjusted fitness: its
\* own current genotype when it is not worse than the candidate, the
\* candidate's otherwise, whatever reassignments and store_best calls came
\* before.
C11_StoreBestKeepsBetter ==
    [][\A i, j \in DOMAIN objs :
          StoreBest(i, j) =>
              heap'[objs'[i].best] =
                  IF objfunc_call(heap, objs[i]) < objfunc_call(heap, objs[j])
                  THEN heap[objs[j]._genotype]
                  ELSE heap[objs[i]._genotype]]_vars

\* What store_best does keep: the candidate's genotype when the candidate is
\* better, and otherwise the array best was bound to before the call.
StoreBestTakesOrLeaves ==
    [][\A i, j \in DOMAIN objs :
          StoreBest(i, j) =>
              heap'[objs'[i].best] =
                  IF objfunc_call(heap, objs[i]) < objfunc_call(heap, objs[j])
                  THEN heap[objs[j]._genotype]
                  ELSE heap[objs[i].best]]_vars

----------------------------------------------------------------------------
(* Specification of the copies of an Indiv: an Indiv is built and changed  *)
(* in any way, copied, and then either of the two is changed. Arrays are   *)
(* written in place as well as rebound (OperatorSplit.evolve assigns into  *)
(* indiv.genotype), and is_dead is a plain attribute.                      *)

\* Changes made to the two objects after the copy that the model follows.
MaxChanges == 2

\* The array attributes of an Indiv.
ArrayAttrs == {"_genotype", "speed", "best"}

CopyInit ==
    /\ heap = <<>>
    /\ objs = <<>>
    /\ population = <<>>
    /\ objfunc = ObjectiveFunc_init("max", FALSE, FALSE, 0)
    /\ track = <<>>
    /\ es = Unused /\ split = Unused /\ fitpop = Unused /\ drv = Unused
    /\ sel = Unused
    /\ last = [op |-> "none", changes |-> 0]

CopyFrame == <<population, objfunc, track, es, split, fitpop, drv, sel>>

\* A change is made before the copy, or is one of the MaxChanges after it.
MayChange(i) ==
    /\ i \in DOMAIN objs
    /\ last.changes < MaxChanges

Changed == [last EXCEPT !.changes = IF last.op = "copy" THEN @ + 1 ELSE @]

\* original = Indiv(objfunc, vector)
CopyNew(vector) ==
    /\ objs = <<>>
    /\ LET c == ConstructNew(heap, objs, vector)
           n == Normal(c.heap, c.objs, <<>>)
       IN  heap' = n.heap /\ objs' = n.objs
    /\ UNCHANGED <<last, CopyFrame>>

\* indiv.fitness, which caches the value when none is cached
CopyFitness(i) ==
    /\ MayChange(i)
    /\ ~objs[i].fitness_calculated
    /\ objs' = [objs EXCEPT ![i] = fitness_get(heap, @).ind]
    /\ last' = Changed
    /\ UNCHANGED <<heap, CopyFrame>>

\* indiv.genotype = vector
CopySetGenotype(i, vector) ==
    /\ MayChange(i)
    /\ LET a  == NewAddr(heap)
           h1 == heap @@ (a :> vector)
           n  == Normal(h1, [objs EXCEPT ![i] = genotype_set(@, a)], <<>>)
       IN  heap' = n.heap /\ objs' = n.objs
    /\ last' = Changed
    /\ UNCHANGED CopyFrame

\* indiv.genotype[p] = x, indiv.speed[p] = x, indiv.best[p] = x: an
\* assignment into the array the attribute is bound to
CopyWrite(i, attr, p, x) ==
    /\ MayChange(i)
    /\ heap[objs[i][attr]][p] # x
    /\ heap' = [heap EXCEPT ![objs[i][attr]][p] = x]
    /\ last' = Changed
    /\ UNCHANGED <<objs, CopyFrame>>

\* indiv.is_dead = True
CopySetDead(i) ==
    /\ MayChange(i)
    /\ ~objs[i].is_dead
    /\ objs' = [objs EXCEPT ![i].is_dead = TRUE]
    /\ last' = Changed
    /\ UNCHANGED <<heap, CopyFrame>>

\* copy(original)
CopyCopy(i) ==
    /\ i \in DOMAIN objs
    /\ last.op = "none"
    /\ LET c == copy_indiv(heap, objs, objs[i])
           n == Normal(c.heap, c.objs, <<>>)
       IN  heap' = n.heap /\ objs' = n.objs
    /\ last' = [op |-> "copy", changes |-> 0]
    /\ UNCHANGED CopyFrame

\* Any change of Indiv i.
CopyChange(i) ==
    \/ CopyFitness(i)
    \/ \E v \in Vectors : CopySetGenotype(i, v)
    \/ \E attr \in ArrayAttrs, p \in 1..vecsize, x \in low_lim..up_lim :
          CopyWrite(i, attr, p, x)
    \/ CopySetDead(i)

CopyNext ==
    \/ \E v \in Vectors : CopyNew(v)
    \/ \E i \in DOMAIN objs : CopyFitness(i)
    \/ \E i \in DOMAIN objs, v \in Vectors : CopySetGenotype(i, v)
    \/ \E i \in DOMAIN objs, attr \in ArrayAttrs, p \in 1..vecsize,
          x \in low_lim..up_lim : CopyWrite(i, attr, p, x)
    \/ \E i \in DOMAIN objs : CopySetDead(i)
    \/ \E i \in DOMAIN objs : CopyCopy(i)

SpecCopy == CopyInit /\ [][CopyNext]_vars

\* The values an Indiv holds: its arrays by content, its fields by value.
Values(h, ind) ==
    [genotype |-> h[ind._genotype], speed |-> h[ind.speed], best |-> h[ind.best],
     fitness |-> ind._fitness, fitness_calculated |-> ind.fitness_calculated,
     is_dead |-> ind.is_dead]

\* The same without is_dead.
ValuesButDead(h, ind) ==
    [genotype |-> h[ind._genotype], speed |-> h[ind.speed], best |-> h[ind.best],
     fitness |-> ind._fitness, fitness_calculated |-> ind.fitness_calculated]

\* The other of the two objects.
Other(i) == 3 - i

\* No change of one of the two objects changes a value of the other.
NoChangeReaches ==
    \A i \in DOMAIN objs :
        (CopyChange(i) /\ Other(i) \in DOMAIN objs)
        => Values(heap', objs'[Other(i)]) = Values(heap, objs[Other(i)])

\* C12: a copy holds the genotype, speed, best genotype, cached fitness,
\* fitness_calculated and is_dead of the original at the time of the copy, and
\* no later change of the copy changes a value of the original, nor the
\* reverse.
C12_CopyCarriesAllAndSharesNothing ==
    [][/\ \A i \in DOMAIN objs :
             CopyCopy(i) => Values(heap', objs'[2]) = Values(heap, objs[i])
       /\ NoChangeReaches]_vars

\* What does hold: a copy holds all of these but is_dead, which it has as the
\* constructor sets it, and the two share nothing.
CopyCarriesAllButDead ==
    [][/\ \A i \in DOMAIN objs :
             CopyCopy(i) =>
                /\ ValuesButDead(heap', objs'[2]) = ValuesButDead(heap, objs[i])
                /\ ~objs'[2].is_dead
                /\ Values(heap', objs'[i]) = Values(heap, objs[i])
       /\ NoChangeReaches]_vars

----------------------------------------------------------------------------
(* Algorithms/ES.py                                                        *)

\* popSize when params does not give one.
DefaultPopSize == 100

\* The params dicts of the model: popSize, with and without offspringSize.
ESParams ==
    {[popSize |-> n] : n \in 1..MaxPop}
    \cup {[popSize |-> n, offspringSize |-> k] : n \in 1..MaxPop, k \in 1..MaxOff}

\* A ParamScheduler, as it is specified: a start and an end configuration,
\* and the current one, which step(progress) recomputes.
ParamScheduler_init(start, end) ==
    [class |-> "ParamScheduler", start |-> start, end |-> end, current |-> start]

\* isinstance(params, ParamScheduler): a dict is modelled by a record of its keys
IsParamScheduler(params) ==
    "class" \in DOMAIN params /\ params.class = "ParamScheduler"

\* progress in [0, 1] is counted in halves: 0, 1, 2 stand for 0, 0.5, 1.
ProgressValues == 0..2

\* ParamScheduler.step(progress): linear interpolation between start and end
\* (the configurations of the model differ by even amounts, so it is exact).
ParamScheduler_step(params, progress) ==
    [params EXCEPT !.current =
        [k \in DOMAIN params.start |->
            params.start[k] + ((params.end[k] - params.start[k]) * progress) \div 2]]

\* key in params, and params[key], for a dict and for a ParamScheduler.
Has(params, key) ==
    IF IsParamScheduler(params) THEN key \in DOMAIN params.current
    ELSE key \in DOMAIN params

Get(params, key) ==
    IF IsParamScheduler(params) THEN params.current[key] ELSE params[key]

\* The ParamSchedulers of the model: popSize and offspringSize, each constant
\* or growing by 2 over the run.
ESSchedulers ==
    {ParamScheduler_init([popSize |-> n, offspringSize |-> k],
                         [popSize |-> n + dn, offspringSize |-> k + dk]) :
        n \in 1..MaxPop, k \in 1..MaxOff, dn \in {0, 2}, dk \in {0, 2}}

\* An Operator or a Selection method held by ES, as update_params uses it:
\* the progress values its step() was called with.
Operator_init == [steps |-> <<>>]

Operator_step(op, progress) == [op EXCEPT !.steps = Append(@, progress)]

\* ES.__init__: no population is given.
ES_init(params) ==
    LET size == IF Has(params, "popSize") THEN Get(params, "popSize")
                ELSE DefaultPopSize
    IN  [params |-> params,
         size |-> size,
         n_offspring |-> IF Has(params, "offspringSize")
                         THEN Get(params, "offspringSize") ELSE size,
         mutation_op |-> Operator_init, cross_op |-> Operator_init,
         parent_sel_op |-> Operator_init, selection_op |-> Operator_init,
         pc |-> "new", parent_list |-> <<>>, offspring |-> <<>>,
         cross_repaired |-> TRUE]

\* The names update_params can read: its parameters and the names the module
\* imports or defines.
BoundInES(name) ==
    name \in {"self", "progress", "random", "np", "Indiv", "ParamScheduler",
              "BaseAlgorithm", "ES", "isinstance"}

\* ES.update_params(progress): [es: the object after the call, raised: the
\* exception it ends with or "none"]. The last statement reads `params` as a
\* plain name.
update_params(self, progress) ==
    LET stepped == [self EXCEPT !.mutation_op = Operator_step(@, progress),
                                !.cross_op = Operator_step(@, progress),
                                !.parent_sel_op = Operator_step(@, progress),
                                !.selection_op = Operator_step(@, progress)]
    IN  IF ~IsParamScheduler(self.params)
        THEN [es |-> stepped, raised |-> "none"]
        ELSE LET p1 == ParamScheduler_step(self.params, progress)
                 e1 == [stepped EXCEPT !.params = p1,
                                       !.size = Get(p1, "popSize")]
             IN  IF ~BoundInES("params")
                 THEN [es |-> e1, raised |-> "NameError"]
                 ELSE [es |-> [e1 EXCEPT !.n_offspring = Get(p1, "offspringSize")],
                       raised |-> "none"]

\* The objects of the population alone: what perturb built before is dropped.
OfPopulation(o, pop) == [i \in 1..Len(pop) |-> o[i]]

\* initialize: size times Indiv(objfunc, objfunc.random_solution()).
RECURSIVE Build(_, _, _, _)
Build(h, o, vectors, k) ==
    IF k > Len(vectors) THEN [heap |-> h, objs |-> o]
    ELSE LET c == ConstructNew(h, o, vectors[k])
         IN  Build(c.heap, c.objs, vectors, k + 1)

\* sorted(list, reverse=True, key=...): stable, so equal keys keep their order.
RECURSIVE InsertDescLast(_, _, _)
InsertDescLast(s, x, key) ==
    IF s = <<>> THEN <<x>>
    ELSE IF key[Head(s)] > key[x]
         THEN <<Head(s)>> \o InsertDescLast(Tail(s), x, key)
         ELSE <<x>> \o s

RECURSIVE InsertDesc(_, _, _)
InsertDesc(s, x, key) ==
    IF s = <<>> THEN <<x>>
    ELSE IF key[Head(s)] >= key[x]
         THEN <<Head(s)>> \o InsertDesc(Tail(s), x, key)
         ELSE <<x>> \o s

RECURSIVE SortedDesc(_, _, _)
SortedDesc(list, key, n) ==
    IF n = 0 THEN <<>>
    ELSE InsertDesc(SortedDesc(list, key, n - 1), list[n], key)

\* The key function reads c.fitness of every member, in list order.
RECURSIVE ReadAll(_, _, _, _)
ReadAll(h, o, list, k) ==
    IF k > Len(list) THEN o
    ELSE ReadAll(h, [o EXCEPT ![list[k]] = fitness_get(h, @).ind], list, k + 1)

\* best_solution: [objs: the objects after the reads, vector, fitness].
\* best_solution.vector is the array the Indiv was built on, its genotype;
\* objfunc.opt is the mode of the objective function.
best_solution_nosign(h, o, pop) ==
    LET o1   == ReadAll(h, o, pop, 1)
        key  == [i \in DOMAIN o1 |-> o1[i]._fitness]
        best == SortedDesc(pop, key, Len(pop))[1]
    IN  [objs |-> o1, vector |-> o1[best]._genotype,
         fitness |-> fitness_get(h, o1[best]).ret]

best_solution(h, o, pop) ==
    LET o1   == ReadAll(h, o, pop, 1)
        key  == [i \in DOMAIN o1 |-> o1[i]._fitness]
        best == SortedDesc(pop, key, Len(pop))[1]
        best_fitness == fitness_get(h, o1[best]).ret
    IN  [objs |-> o1, vector |-> o1[best]._genotype,
         fitness |-> IF objfunc.mode = "min" THEN best_fitness * (-1)
                     ELSE best_fitness]

----------------------------------------------------------------------------
(* Specification of ES.py: an ES object, initialized, then any sequence of *)
(* its methods; perturb runs one iteration of its loop per step, and       *)
(* nothing else runs before it returns.                                    *)

ESInit ==
    /\ heap = <<>>
    /\ objs = <<>>
    /\ population = <<>>
    /\ objfunc \in ObjFuncs
    /\ es \in {ES_init(params) : params \in ESParams}
    /\ split = Unused /\ fitpop = Unused /\ drv = Unused /\ sel = Unused
    /\ track = <<>>
    /\ last = [op |-> "none"]

\* es.initialize()
Initialize ==
    /\ es.pc \in {"new", "idle"}
    /\ \E vectors \in [1..es.size -> Vectors] :
          LET b == Build(<<>>, <<>>, vectors, 1)
              n == Normal(b.heap, b.objs, <<>>)
          IN  /\ heap' = n.heap
              /\ objs' = n.objs
              /\ population' = [k \in 1..es.size |-> k]
    /\ es' = [es EXCEPT !.pc = "idle", !.offspring = <<>>, !.parent_list = <<>>]
    /\ last' = [op |-> "initialize"]
    /\ UNCHANGED <<objfunc, ESFrame>>

\* es.best_solution()
BestSolution ==
    /\ es.pc = "idle"
    /\ LET r == best_solution(heap, OfPopulation(objs, population), population)
           n == Normal(heap, r.objs, <<r.vector>>)
       IN  /\ heap' = n.heap
           /\ objs' = n.objs
           /\ last' = [op |-> "best_solution", vector |-> n.extra[1],
                       fitness |-> r.fitness, population |-> population]
    /\ es' = [es EXCEPT !.offspring = <<>>]
    /\ UNCHANGED <<population, objfunc, ESFrame>>

\* The lists parent_sel_op can return: the members it keeps, in order.
ParentLists(pop) ==
    {[k \in 1..Len(pop) |-> pop[k]]} \cup {<<pop[k]>> : k \in 1..Len(pop)}

\* es.perturb(parent_list): the call, up to the loop.
PerturbCall ==
    /\ es.pc = "idle"
    /\ \E parent_list \in ParentLists(population) :
          es' = [es EXCEPT !.pc = "perturb", !.offspring = <<>>,
                           !.parent_list = parent_list, !.cross_repaired = TRUE]
    /\ LET n == Normal(heap, OfPopulation(objs, population), <<>>)
       IN  heap' = n.heap /\ objs' = n.objs
    /\ last' = [op |-> "none"]
    /\ UNCHANGED <<population, objfunc, ESFrame>>

\* One iteration of the loop: cross, check_bounds, mutate, check_bounds,
\* append. mutated is what mutation_op returns; cross_repaired records that
\* whatever cross_op returns for parent1, the genotype of the Indiv handed to
\* mutation_op is inside the limits.
PerturbIter ==
    /\ es.pc = "perturb"
    /\ Len(es.offspring) < es.size
    /\ \E k \in DOMAIN es.parent_list, mutated \in OpVectors :
          LET parent1 == es.parent_list[k]
              new_solution == clip(mutated)
              c == ConstructNew(heap, objs, new_solution)
              n == Normal(c.heap, c.objs, <<>>)
          IN  /\ heap' = n.heap
              /\ objs' = n.objs
              /\ es' = [es EXCEPT !.offspring = Append(@, c.id),
                           !.cross_repaired =
                               @ /\ \A crossed \in OpVectors : clip(crossed) \in Vectors]
    /\ UNCHANGED <<population, objfunc, last, ESFrame>>

\* The loop ends and perturb returns offspring.
PerturbReturn ==
    /\ es.pc = "perturb"
    /\ ~(Len(es.offspring) < es.size)
    /\ es' = [es EXCEPT !.pc = "idle", !.parent_list = <<>>]
    /\ last' = [op |-> "perturb", offspring |-> es.offspring]
    /\ UNCHANGED <<heap, objs, population, objfunc, ESFrame>>

ESNext ==
    \/ Initialize
    \/ BestSolution
    \/ PerturbCall
    \/ PerturbIter
    \/ PerturbReturn

SpecES == ESInit /\ [][ESNext]_vars

\* The adjusted fitness of the Indiv with id i, computed from its genotype.
Adjusted(i) == objfunc_call(heap, objs[i])

C8_PerturbReturnsOffspringSize ==
    last.op = "perturb" =>
        /\ Len(last.offspring) = es.n_offspring
        /\ es.cross_repaired
        /\ \A k \in DOMAIN last.offspring :
              heap[objs[last.offspring[k]]._genotype] \in Vectors

\* What perturb does return: size Indivs, repaired as the claim says.
PerturbReturnsSize ==
    last.op = "perturb" =>
        /\ Len(last.offspring) = es.size
        /\ es.cross_repaired
        /\ \A k \in DOMAIN last.offspring :
              heap[objs[last.offspring[k]]._genotype] \in Vectors


----------------------------------------------------------------------------
(* Specification of ES.update_params: an ES built on a dict or on a        *)
(* ParamScheduler, and update_params called once per generation.           *)

\* Calls of update_params the model follows.
MaxUpdates == 2

ParamsInit ==
    /\ heap = <<>> /\ objs = <<>> /\ population = <<>> /\ track = <<>>
    /\ objfunc = ObjectiveFunc_init("max", FALSE, FALSE, 0)
    /\ es \in {ES_init(params) : params \in ESParams \cup ESSchedulers}
    /\ split = Unused /\ fitpop = Unused /\ drv = Unused /\ sel = Unused
    /\ last = [op |-> "none"]

\* es.update_params(progress)
UpdateParams(progress) ==
    /\ Len(es.mutation_op.steps) < MaxUpdates
    /\ LET r == update_params(es, progress)
       IN  /\ es' = r.es
           /\ last' = [op |-> "update_params", progress |-> progress,
                       raised |-> r.raised, before |-> es]
    /\ UNCHANGED <<heap, objs, population, objfunc, ESFrame>>

ParamsNext == \E progress \in ProgressValues : UpdateParams(progress)

SpecESParams == ParamsInit /\ [][ParamsNext]_vars

\* The attributes of ES that hold an Operator or a Selection method.
OperatorAttrs == {"mutation_op", "cross_op", "parent_sel_op", "selection_op"}

\* Every operator was stepped once more, with the progress of the call.
SteppedOnce ==
    \A a \in OperatorAttrs :
        es[a].steps = Append(last.before[a].steps, last.progress)

\* C13: update_params(progress) ends without an error and steps the mutation
\* operator, the crossover operator, the parent selection and the survivor
\* selection once each with progress; when params is a ParamScheduler it
\* steps it too, and size and n_offspring are then its current popSize and
\* offspringSize.
C13_UpdateParamsAdvancesAll ==
    last.op = "update_params" =>
        /\ last.raised = "none"
        /\ SteppedOnce
        /\ IsParamScheduler(es.params) =>
              /\ es.params = ParamScheduler_step(last.before.params, last.progress)
              /\ es.size = es.params.current.popSize
              /\ es.n_offspring = es.params.current.offspringSize

\* What update_params does: with a dict it is as the claim says; with a
\* ParamScheduler the operators and the scheduler are stepped and size is
\* set, and the call then ends in a NameError with n_offspring as it was.
UpdateParamsByKind ==
    last.op = "update_params" =>
        /\ SteppedOnce
        /\ IF IsParamScheduler(es.params)
           THEN /\ last.raised = "NameError"
                /\ es.params = ParamScheduler_step(last.before.params, last.progress)
                /\ es.size = es.params.current.popSize
                /\ es.n_offspring = last.before.n_offspring
           ELSE /\ last.raised = "none"
                /\ es.params = last.before.params
                /\ es.size = last.before.size
                /\ es.n_offspring = last.before.n_offspring

----------------------------------------------------------------------------
(* The run driver `alg` (GeneralSearch), as its state machine is specified, *)
(* and the loop of run_algorithm in examples/image_evolution.py that drives *)
(* it.                                                                      *)

\* Largest ngen and neval of the run configuration.
MaxNgen == 5

MaxNeval == 3

\* The run configurations: the stopping condition and its limits.
RunParams == [stop_cond : {"ngen", "neval"}, ngen : 1..MaxNgen, neval : 1..MaxNeval]

\* The driver after construction.
Driver_init(params) ==
    [params |-> params, state |-> "NOT_STARTED", steps |-> 0, evals |-> 0,
     history |-> 0]

\* The stopping condition: the generation limit or the evaluation limit.
stopping_condition(alg) ==
    IF alg.params.stop_cond = "ngen" THEN alg.steps >= alg.params.ngen
    ELSE alg.evals >= alg.params.neval

\* alg.ended
ended(alg) == alg.state = "ENDED"

\* alg.initialize(): the strategy creates the initial population.
Driver_initialize(alg) ==
    IF alg.state = "NOT_STARTED" THEN [alg EXCEPT !.state = "RUNNING"] ELSE alg

\* alg.step(): while RUNNING, one generation of the strategy (which evaluates
\* nevals solutions), one snapshot appended to the history, and the stopping
\* condition recomputed.
Driver_step(alg, nevals) ==
    IF alg.state # "RUNNING" THEN alg
    ELSE LET a == [alg EXCEPT !.steps = @ + 1, !.evals = @ + nevals,
                              !.history = @ + 1]
         IN  [a EXCEPT !.state = IF stopping_condition(a) THEN "ENDED" ELSE @]

\* Whether a call of alg.step() runs a generation of the strategy.
RunsGeneration(alg) == alg.state = "RUNNING"

\* Calls counted up to one past the largest limit.
CountCall(n) == IF n <= MaxNgen THEN n + 1 ELSE n

\* while not alg.ended
LoopTestAlways(alg) == TRUE

LoopTest(alg) == ~ended(alg)

DriverInit ==
    /\ heap = <<>> /\ objs = <<>> /\ population = <<>> /\ track = <<>>
    /\ objfunc = Unused /\ es = Unused /\ split = Unused /\ fitpop = Unused
    /\ sel = Unused
    /\ \E params \in RunParams :
          drv = [pc |-> "initialize", alg |-> Driver_init(params),
                 step_calls |-> 0, gen_calls |-> 0]
    /\ last = [op |-> "none"]

DriverFrame == <<heap, objs, population, objfunc, es, split, fitpop, sel, track, last>>

\* alg.initialize()
RunInitialize ==
    /\ drv.pc = "initialize"
    /\ drv' = [drv EXCEPT !.pc = "test", !.alg = Driver_initialize(@)]
    /\ UNCHANGED DriverFrame

\* while not alg.ended: into the body, or past the loop
RunTest ==
    /\ drv.pc = "test"
    /\ drv' = [drv EXCEPT !.pc = IF LoopTest(drv.alg) THEN "step" ELSE "finish"]
    /\ UNCHANGED DriverFrame

\* alg.step(time_start=real_time_start)
RunStep ==
    /\ drv.pc = "step"
    /\ \E nevals \in 1..2 :
          drv' = [drv EXCEPT !.pc = "update",
                             !.alg = Driver_step(@, nevals),
                             !.step_calls = CountCall(@),
                             !.gen_calls = IF RunsGeneration(drv.alg)
                                           THEN CountCall(@) ELSE @]
    /\ UNCHANGED DriverFrame

\* alg.update(real_time_start, cpu_time_start): the times spent
RunUpdate ==
    /\ drv.pc = "update"
    /\ drv' = [drv EXCEPT !.pc = "display"]
    /\ UNCHANGED DriverFrame

\* alg.step_info and the rendering of alg.best_solution(), then the loop test
RunDisplay ==
    /\ drv.pc = "display"
    /\ drv' = [drv EXCEPT !.pc = "test"]
    /\ UNCHANGED DriverFrame

\* After the loop: the times, the last best_solution(), the report.
RunFinish ==
    /\ drv.pc = "finish"
    /\ drv' = [drv EXCEPT !.pc = "done"]
    /\ UNCHANGED DriverFrame

DriverNext ==
    \/ RunInitialize
    \/ RunTest
    \/ RunStep
    \/ RunUpdate
    \/ RunDisplay
    \/ RunFinish

SpecDriver == DriverInit /\ [][DriverNext]_vars

----------------------------------------------------------------------------
(* Operators/OperatorSplit.py                                              *)

\* The operators that can be put in op_list, by method: "nothing" returns
\* the genotype as it is, "dummy" a genotype of up_lim everywhere, "reverse"
\* the genotype in reverse order.
Methods == {"nothing", "dummy", "reverse"}

\* op.evolve(indiv, population, objfunc, global_best): the genotype (a new
\* array) of the Indiv it returns, from the genotype indiv holds at the call.
OpEvolve(op, genotype) ==
    IF op.method = "nothing" THEN genotype
    ELSE IF op.method = "dummy" THEN [p \in DOMAIN genotype |-> up_lim]
    ELSE [p \in DOMAIN genotype |-> genotype[Len(genotype) + 1 - p]]

\* OperatorSplit.__init__: op_list and mask are kept; the name joins the
\* names of the operators whose method is not "nothing".
OperatorSplit_init(op_list, mask) ==
    [op_list |-> op_list, mask |-> mask,
     name |-> [k \in {j \in DOMAIN op_list : op_list[j].method # "nothing"}
                 |-> op_list[k].name]]

\* The OperatorSplit objects of the model: two operators, any mask over them.
Splits ==
    {OperatorSplit_init(<<[name |-> m1, method |-> m1], [name |-> m2, method |-> m2]>>, mask) :
        m1 \in Methods, m2 \in Methods, mask \in [1..vecsize -> 0..1]}

\* The names evolve can read: its parameters, the names its own statements
\* bind, and the names the module imports or defines.
BoundWithAttributes(name) ==
    name \in {"self", "indiv", "population", "objfunc", "global_best",
              "idx", "op", "aux_indiv", "enumerate",
              "random", "np", "copy", "List", "Union", "ParamScheduler",
              "Operator", "OperatorSplit", "op_list", "mask"}

Bound(name) ==
    name \in {"self", "indiv", "population", "objfunc", "global_best",
              "idx", "op", "aux_indiv", "enumerate",
              "random", "np", "copy", "List", "Union", "ParamScheduler",
              "Operator", "OperatorSplit"}

\* The loop of evolve from index idx on (idx counts from 0): op.evolve on
\* indiv as it is now, then the masked positions of indiv.genotype are
\* assigned in place.
RECURSIVE evolve_loop(_, _, _, _, _)
evolve_loop(h, self, indiv, op_list, idx) ==
    IF idx >= Len(op_list) THEN h
    ELSE LET aux_genotype == OpEvolve(op_list[idx + 1], h[indiv._genotype])
             written == [p \in DOMAIN h[indiv._genotype] |->
                            IF self.mask[p] = idx THEN aux_genotype[p]
                            ELSE h[indiv._genotype][p]]
         IN  evolve_loop([h EXCEPT ![indiv._genotype] = written],
                         self, indiv, op_list, idx + 1)

\* OperatorSplit.evolve: [heap: the arrays after the call, raised: the
\* exception it ends with or "none", result: what it returns]. op_list and
\* result are read as plain names.
evolve(h, self, indiv) ==
    IF ~Bound("op_list")
    THEN [heap |-> h, raised |-> "NameError", result |-> <<>>]
    ELSE LET h1 == evolve_loop(h, self, indiv, self.op_list, 0)
         IN  IF ~Bound("result")
             THEN [heap |-> h1, raised |-> "NameError", result |-> <<>>]
             ELSE [heap |-> h1, raised |-> "none", result |-> h1[indiv._genotype]]

----------------------------------------------------------------------------
(* Specification of OperatorSplit.py: Indivs are built and their fitness   *)
(* read, and the operator is applied to any of them.                       *)

SplitInit ==
    /\ heap = <<>> /\ objs = <<>> /\ population = <<>> /\ track = <<>>
    /\ objfunc = ObjectiveFunc_init("max", FALSE, FALSE, 0)
    /\ split \in Splits
    /\ es = Unused /\ fitpop = Unused /\ drv = Unused /\ sel = Unused
    /\ last = [op |-> "none"]

SplitFrame == <<objfunc, es, fitpop, drv, sel, track>>

\* Indiv(objfunc, vector), appended to the population
SplitNew(vector) ==
    /\ Cardinality(DOMAIN objs) < MaxIndivs
    /\ LET c == ConstructNew(heap, objs, vector)
           n == Normal(c.heap, c.objs, <<>>)
       IN  /\ heap' = n.heap
           /\ objs' = n.objs
           /\ population' = Append(population, c.id)
    /\ last' = [op |-> "new"]
    /\ UNCHANGED <<split, SplitFrame>>

\* indiv.fitness
SplitFitness(i) ==
    /\ i \in DOMAIN objs
    /\ ~objs[i].fitness_calculated
    /\ objs' = [objs EXCEPT ![i] = fitness_get(heap, @).ind]
    /\ last' = [op |-> "fitness"]
    /\ UNCHANGED <<heap, population, split, SplitFrame>>

\* split.evolve(indiv, population, objfunc, global_best)
Evolve(i) ==
    /\ i \in DOMAIN objs
    /\ LET r == evolve(heap, split, objs[i])
       IN  /\ heap' = r.heap
           /\ last' = [op |-> "evolve", indiv |-> i, raised |-> r.raised,
                       result |-> r.result, heap |-> heap, objs |-> objs]
    /\ UNCHANGED <<objs, population, split, SplitFrame>>

SplitNext ==
    \/ \E v \in Vectors : SplitNew(v)
    \/ \E i \in DOMAIN objs : SplitFitness(i)
    \/ \E i \in DOMAIN objs : Evolve(i)

SpecSplit == SplitInit /\ [][SplitNext]_vars

\* The genotype the masked combination is to return: at every position the
\* value of the result of the operator the mask names, each operator applied
\* to the genotype the individual had at the call.
Combined(self, genotype) ==
    [p \in DOMAIN genotype |->
        OpEvolve(self.op_list[self.mask[p] + 1], genotype)[p]]

\* C6: evolve returns a genotype whose value at every position p is the value
\* at p of the result of op_{mask[p]} applied to the original individual.
C6_EvolveReturnsMaskedCombination ==
    last.op = "evolve" =>
        /\ last.raised = "none"
        /\ last.result = Combined(split, last.heap[last.objs[last.indiv]._genotype])

\* The arrays and fields of Indiv i in a heap and an object store.
Contents(h, o, i) ==
    [genotype |-> h[o[i]._genotype], best |-> h[o[i].best],
     fitness |-> o[i]._fitness, fitness_calculated |-> o[i].fitness_calculated]

----------------------------------------------------------------------------
(* ObjectiveFunc.fitness on a Population                                   *)

\* Largest value of the evaluation counter the model follows.
MaxCount == 4

\* A Population object, as fitness() reads it: decode() gives `solutions`,
\* fitness and fitness_calculated are arrays with one entry per individual.
\* A new population has nothing calculated.
Population_init(solutions) ==
    [solutions |-> solutions,
     fitness |-> [k \in DOMAIN solutions |-> 0],
     fitness_calculated |-> [k \in DOMAIN solutions |-> 0]]

\* population.pop_size
pop_size(p) == Len(p.solutions)

\* population.fitness_calculated.sum()
RECURSIVE SumFlags(_, _)
SumFlags(fc, n) == IF n = 0 THEN 0 ELSE fc[n] + SumFlags(fc, n - 1)

\* ObjectiveFunc.fitness(population, adjusted): [ret: the array returned,
\* population: the Population after the call, counter: self.counter after
\* it, evaluated: the individuals whose solution was given to objective()].
\* `fitness` is population.fitness itself, so an indexed assignment to it
\* writes the population's array; `fitness = fitness_new` rebinds the local.
fitness(self, p, adjusted) ==
    LET n      == pop_size(p)
        uncalc == {k \in 1..n : p.fitness_calculated[k] = 0}
        \* the vectorized branch
        vsel   == IF self.recalculate THEN uncalc ELSE 1..n
        vnew   == [k \in 1..n |->
                     IF k \in vsel THEN FitnessValue(p.solutions[k], adjusted)
                     ELSE p.fitness[k]]
        \* the loop
        lsel   == {k \in 1..n : self.recalculate \/ p.fitness_calculated[k] = 0}
        lnew   == [k \in 1..n |->
                     IF k \in lsel THEN FitnessValue(p.solutions[k], adjusted)
                     ELSE p.fitness[k]]
        ret    == IF self.vectorized THEN vnew ELSE lnew
        stored == IF self.vectorized /\ ~self.recalculate THEN p.fitness ELSE ret
    IN  [ret |-> ret,
         population |-> [p EXCEPT !.fitness = stored,
                                  !.fitness_calculated = [k \in 1..n |-> 1]],
         counter |-> IF self.recalculate THEN self.counter + n
                     ELSE self.counter + (n - SumFlags(p.fitness_calculated, n)),
         evaluated |-> IF self.vectorized THEN vsel ELSE lsel]

----------------------------------------------------------------------------
(* Specification of ObjectiveFunc.fitness: a population, calls of fitness  *)
(* with either value of adjusted, and individuals replaced in between.     *)

FitInit ==
    /\ heap = <<>> /\ objs = <<>> /\ population = <<>> /\ track = <<>>
    /\ es = Unused /\ split = Unused /\ drv = Unused /\ sel = Unused
    /\ objfunc \in {ObjectiveFunc_init(m, v, r, pen) :
                      m \in {"max", "min"}, v \in BOOLEAN, r \in BOOLEAN,
                      pen \in {0, 1}}
    /\ \E n \in 1..MaxPop : \E solutions \in [1..n -> Vectors] :
          fitpop = Population_init(solutions)
    /\ last = [op |-> "none"]

FitFrame == <<heap, objs, population, es, split, drv, sel, track>>

\* objfunc.fitness(population, adjusted)
CallFitness(adjusted) ==
    /\ objfunc.counter + pop_size(fitpop) <= MaxCount
    /\ LET r == fitness(objfunc, fitpop, adjusted)
       IN  /\ fitpop' = r.population
           /\ objfunc' = [objfunc EXCEPT !.counter = r.counter]
           /\ last' = [op |-> "fitness", adjusted |-> adjusted, ret |-> r.ret,
                       evaluated |-> r.evaluated,
                       fitness_calculated |-> fitpop.fitness_calculated]
    /\ UNCHANGED FitFrame

\* The strategy puts a new individual in place k: a solution with nothing
\* calculated.
Replace(k, vector) ==
    /\ k \in DOMAIN fitpop.solutions
    /\ fitpop.fitness_calculated[k] = 1
    /\ fitpop' = [fitpop EXCEPT !.solutions[k] = vector,
                                !.fitness_calculated[k] = 0]
    /\ last' = [op |-> "replace"]
    /\ UNCHANGED <<objfunc, FitFrame>>

FitNext ==
    \/ \E adjusted \in BOOLEAN : CallFitness(adjusted)
    \/ \E k \in DOMAIN fitpop.solutions, v \in Vectors : Replace(k, v)

SpecFitness == FitInit /\ [][FitNext]_vars

\* C9: with recalculate = True fitness(population) evaluates the objective on
\* every individual, and with recalculate = False on exactly those whose
\* fitness was not calculated yet, in the vectorized mode and in the loop.
C9_RecalculateEvaluatesAll ==
    last.op = "fitness" =>
        last.evaluated =
            IF objfunc.recalculate THEN DOMAIN fitpop.solutions
            ELSE {k \in DOMAIN fitpop.solutions : last.fitness_calculated[k] = 0}

\* What the code does evaluate: the loop as the claim says, the vectorized
\* mode the other way round.
EvaluatedByMode ==
    last.op = "fitness" =>
        last.evaluated =
            IF objfunc.recalculate = ~objfunc.vectorized
            THEN DOMAIN fitpop.solutions
            ELSE {k \in DOMAIN fitpop.solutions : last.fitness_calculated[k] = 0}

\* C10: fitness(population, adjusted=False) returns the raw objective value of
\* every individual, whatever was calculated before, and
\* fitness(population, adjusted=True) returns factor * (objective - penalty)
\* of every individual.
C10_ReturnsValueForAdjusted ==
    last.op = "fitness" =>
        \A k \in DOMAIN fitpop.solutions :
            last.ret[k] =
                IF last.adjusted
                THEN objfunc.factor * (objective(fitpop.solutions[k])
                                         - penalize(fitpop.solutions[k]))
                ELSE objective(fitpop.solutions[k])

\* C14: the evaluation counter is the number of solutions the objective was
\* evaluated on: every call of fitness adds to it the number of individuals it
\* evaluated, whatever vectorized, recalculate and the flags of the
\* population are (the counter is 0 after construction).
C14_CounterCountsEvaluations ==
    [][\A adjusted \in BOOLEAN :
          CallFitness(adjusted) =>
              objfunc'.counter = objfunc.counter + Cardinality(last'.evaluated)]_vars

\* What the counter does count: the evaluations of the loop, and in the
\* vectorized mode the individuals that the loop would have evaluated.
CounterCountsAsLoop ==
    [][\A adjusted \in BOOLEAN :
          CallFitness(adjusted) =>
              objfunc'.counter = objfunc.counter +
                  Cardinality({k \in DOMAIN fitpop.solutions :
                      objfunc.recalculate \/ fitpop.fitness_calculated[k] = 0})]_vars

----------------------------------------------------------------------------
(* algorithms/AlgorithmSelection.py                                        *)

\* Largest number of algorithms in the list, and of repetitions.
MaxAlgs == 3

MaxReps == 2

\* A name is a string: a sequence of characters.
Digits == <<"0", "1", "2", "3", "4", "5", "6", "7", "8", "9">>

\* str(n) of a natural number
RECURSIVE str(_)
str(n) ==
    IF n < 10 THEN <<Digits[n + 1]>>
    ELSE str(n \div 10) \o <<Digits[(n % 10) + 1]>>

\* The names the algorithms are given when they are built.
Names == {<<"A">>, <<"B">>, <<"A", "2">>}

\* An Algorithm object as AlgorithmSelection uses it: its name, and how many
\* times optimize() and restart() were called on it.
Algorithm_init(name) == [name |-> name, runs |-> 0, restarts |-> 0]

\* The params dicts of the model.
SelParams == {[repetitions |-> r] : r \in 1..MaxReps}

\* Counter.update([prev_name])
Counter_update(name_counter, prev_name) ==
    IF prev_name \in DOMAIN name_counter
    THEN [name_counter EXCEPT ![prev_name] = @ + 1]
    ELSE name_counter @@ (prev_name :> 1)

\* The renaming of a name that is in the counter when its turn comes.
RenamedAs(name_counter, name) == name \o str(name_counter[name] + 1)

\* The loop of __init__ over algorithm_list from position k on: the list with
\* the names it leaves.
RECURSIVE avoid_repeating(_, _, _)
avoid_repeating(algorithm_list, name_counter, k) ==
    IF k > Len(algorithm_list) THEN algorithm_list
    ELSE LET prev_name == algorithm_list[k].name
             renamed   == IF prev_name \in DOMAIN name_counter
                          THEN [algorithm_list EXCEPT ![k].name =
                                    RenamedAs(name_counter, prev_name)]
                          ELSE algorithm_list
         IN  avoid_repeating(renamed, Counter_update(name_counter, prev_name), k + 1)

\* AlgorithmSelection.__init__
AlgorithmSelection_init(algorithm_list, params) ==
    [repetitions |-> params.repetitions,
     algorithm_list |-> avoid_repeating(algorithm_list, <<>>, 1),
     solutions |-> <<>>]

\* The fitness values a run can report.
FitnessValues == 0..2

\* The names of report_raw in the order of their first row (groupby with
\* sort=False).
RECURSIVE GroupNames(_, _)
GroupNames(report_raw, n) ==
    IF n = 0 THEN <<>>
    ELSE LET before == GroupNames(report_raw, n - 1)
         IN  IF \E k \in DOMAIN before : before[k] = report_raw[n].name
             THEN before ELSE Append(before, report_raw[n].name)

\* The report: per name, the smallest and the largest fitness of its rows.
Report(report_raw) ==
    LET names == GroupNames(report_raw, Len(report_raw))
        group(name) == {report_raw[k].fitness :
                           k \in {j \in DOMAIN report_raw : report_raw[j].name = name}}
    IN  [g \in DOMAIN names |->
            [name |-> names[g],
             fitness_min |-> CHOOSE x \in group(names[g]) :
                                 \A y \in group(names[g]) : x <= y,
             fitness_max |-> CHOOSE x \in group(names[g]) :
                                 \A y \in group(names[g]) : x >= y]]

\* None, which is no run's solution: the solutions are numbered from 1.
None == 0

\* The test that replaces the best solution kept so far.
ReplacesBest(best, best_fitness, fit) ==
    best = None \/ best_fitness > fit

----------------------------------------------------------------------------
(* Specification of AlgorithmSelection: the object is built on a list of   *)
(* algorithms, then optimize() runs, one inner-loop iteration per step.    *)

SelInit ==
    /\ heap = <<>> /\ objs = <<>> /\ population = <<>> /\ track = <<>>
    /\ objfunc \in {ObjectiveFunc_init(m, FALSE, FALSE, 0) : m \in {"max", "min"}}
    /\ es = Unused /\ split = Unused /\ fitpop = Unused /\ drv = Unused
    /\ \E n \in 1..MaxAlgs : \E names \in [1..n -> Names], params \in SelParams :
          sel = [pc |-> "new", params |-> params,
                 algorithm_list |-> [k \in 1..n |-> Algorithm_init(names[k])]]
    /\ last = [op |-> "none"]

SelFrame == <<heap, objs, population, objfunc, es, split, fitpop, drv, track>>

\* AlgorithmSelection(algorithm_list, params)
SelConstruct ==
    /\ sel.pc = "new"
    /\ sel' = AlgorithmSelection_init(sel.algorithm_list, sel.params)
                 @@ [pc |-> "built"]
    /\ last' = [op |-> "init", given |-> [k \in DOMAIN sel.algorithm_list |->
                                            sel.algorithm_list[k].name]]
    /\ UNCHANGED SelFrame

\* optimize(): up to the loops
OptimizeCall ==
    /\ sel.pc = "built"
    /\ sel' = [sel EXCEPT !.pc = "loop"]
                 @@ [best_solution |-> None, best_fitness |-> 0,
                     report_raw |-> <<>>]
    /\ UNCHANGED <<last, SelFrame>>

\* One iteration of the inner loop: algorithm.optimize(), the row of the
\* report, the best kept, algorithm.restart(). The iterations run algorithm
\* by algorithm, repetitions times each; the solution of a run is named by
\* the number of the run.
OptimizeRun ==
    /\ sel.pc = "loop"
    /\ Len(sel.report_raw) < Len(sel.algorithm_list) * sel.repetitions
    /\ \E fit \in FitnessValues :
          LET idx      == Len(sel.report_raw) \div sel.repetitions
              solution == Len(sel.report_raw) + 1
              replaces == ReplacesBest(sel.best_solution, sel.best_fitness, fit)
          IN  sel' = [sel EXCEPT
                        !.algorithm_list[idx + 1].runs = @ + 1,
                        !.algorithm_list[idx + 1].restarts = @ + 1,
                        !.report_raw = Append(@,
                            [name |-> sel.algorithm_list[idx + 1].name,
                             fitness |-> fit, solution |-> solution]),
                        !.best_solution = IF replaces THEN solution ELSE @,
                        !.best_fitness = IF replaces THEN fit ELSE @]
    /\ UNCHANGED <<last, SelFrame>>

\* The loops are over: the report is grouped and optimize returns.
OptimizeReturn ==
    /\ sel.pc = "loop"
    /\ ~(Len(sel.report_raw) < Len(sel.algorithm_list) * sel.repetitions)
    /\ sel' = [sel EXCEPT !.pc = "done"]
    /\ last' = [op |-> "optimize", best_solution |-> sel.best_solution,
                report |-> Report(sel.report_raw)]
    /\ UNCHANGED SelFrame

SelNext ==
    \/ SelConstruct
    \/ OptimizeCall
    \/ OptimizeRun
    \/ OptimizeReturn

SpecSelection == SelInit /\ [][SelNext]_vars

\* C15: once AlgorithmSelection is built, the names of the algorithms of its
\* list are pairwise distinct, whatever names they were given.
C15_NamesPairwiseDistinct ==
    sel.pc # "new" =>
        \A i, j \in DOMAIN sel.algorithm_list :
            i # j => sel.algorithm_list[i].name # sel.algorithm_list[j].name

\* What does hold: the names are distinct when no name given ends in a digit.
NamesDistinctWithoutDigits ==
    (sel.pc = "built"
        /\ \A k \in DOMAIN last.given :
              \A d \in DOMAIN Digits : last.given[k][Len(last.given[k])] # Digits[d])
    => \A i, j \in DOMAIN sel.algorithm_list :
          i # j => sel.algorithm_list[i].name # sel.algorithm_list[j].name

\* Fitness f is at least as good as g under the mode of the objective.
AsGoodAs(f, g) == IF objfunc.mode = "max" THEN f >= g ELSE f <= g

\* Every algorithm was run repetitions times, and restarted after each run.
RunRepetitionsEach ==
    \A k \in DOMAIN sel.algorithm_list :
        /\ sel.algorithm_list[k].runs = sel.repetitions
        /\ sel.algorithm_list[k].restarts = sel.repetitions

\* C16: optimize runs every algorithm exactly repetitions times, restarting
\* it after each run, and the best solution it returns is the solution of a
\* run whose reported fitness is the best of all runs under the mode of the
\* objective: the highest for "max", the lowest for "min".
C16_ReturnsBestOfAllRuns ==
    sel.pc = "done" =>
        /\ RunRepetitionsEach
        /\ \E t \in DOMAIN sel.report_raw :
              /\ last.best_solution = sel.report_raw[t].solution
              /\ \A u \in DOMAIN sel.report_raw :
                    AsGoodAs(sel.report_raw[t].fitness, sel.report_raw[u].fitness)

\* What optimize does return: the first run of the lowest reported fitness,
\* in either mode.
ReturnsLowestOfAllRuns ==
    sel.pc = "done" =>
        /\ RunRepetitionsEach
        /\ \E t \in DOMAIN sel.report_raw :
              /\ last.best_solution = sel.report_raw[t].solution
              /\ \A u \in DOMAIN sel.report_raw :
                    /\ sel.report_raw[t].fitness <= sel.report_raw[u].fitness
                    /\ u < t => sel.report_raw[t].fitness < sel.report_raw[u].fitness


====
